---- MODULE Spec2Model ----
(***************************************************************************)
(* gh-space-shooter: the frame sequencer (Animator), the ship, the game    *)
(* state with its bullets, enemies and explosions, and the strategies that *)
(* drive the ship.                                                         *)
(*                                                                         *)
(* Positions are fixed point.  Ship and bullet columns are counted in      *)
(* quarter cells (SHIP_SPEED = 0.25 cell = 1 unit), bullet rows in         *)
(* twentieths of a cell (BULLET_SPEED = 0.15 cell = 3 units).  All values  *)
(* the program computes are multiples of these units and the float         *)
(* comparisons of the program agree with the integer ones.                 *)
(***************************************************************************)
EXTENDS Integers, Sequences, FiniteSets, TLC

\* ------------------------------------------------------------------ bounds
MaxLevel == 2          \* levels of the generated grids are 0..MaxLevel
NumCells == 2          \* how many candidate cells a generated grid may fill
MaxCap == 7            \* small max_frames values are 1..MaxCap
MaxScript == 2         \* longest action sequence of a custom strategy
TickLimit == 300       \* no run is followed beyond this many animate() calls

\* --------------------------------------------------------------- constants
NUM_WEEKS == 52
NUM_DAYS == 7
SHIP_POSITION_Y == NUM_DAYS + 3
XScale == 4
YScale == 20
SHIP_SPEED == 1
BULLET_SPEED == 3
SHIP_SHOOT_COOLDOWN_FRAMES == 10

FRAME_DURATION_MS == 20

\* the fps the web app builds its Animator with
WEB_FPS == 25
EXPLOSION_MAX_FRAMES_LARGE == 20
EXPLOSION_MAX_FRAMES_SMALL == 6
SHIP_START_X == 25
FORCE_KILL_COUNTDOWN == 100
TRAILING_FRAMES == 5
WEB_MAX_FRAMES == 250
BULLET_OFFSCREEN_Y == -10

None == -1

Min(a, b) == IF a < b THEN a ELSE b
Max(a, b) == IF a > b THEN a ELSE b

\* -------------------------------------------------------------------- grid
\* A grid is its number of weeks and the level of its non-zero cells; every
\* other cell <<week, day>> of [0, weeks) x [0, NUM_DAYS) has level 0.
MkGrid(w, c) == [weeks |-> w, cells |-> c]

LevelAt(g, w, d) == IF <<w, d>> \in DOMAIN g.cells THEN g.cells[<<w, d>>] ELSE 0

EmptyCells == [c \in {} |-> 0]

\* tests/test_animator.py SAMPLE_DATA: one week, levels [1,0,2,0,0,3,0]
SampleGrid == MkGrid(1, (<<0, 0>> :> 1) @@ (<<0, 2>> :> 2) @@ (<<0, 5>> :> 3))

\* tests/test_cli_dataurl.py: 52 weeks of 7 days, every level 0
ZeroGrid == MkGrid(NUM_WEEKS, EmptyCells)

CandidateCells == << <<24, 5>>, <<25, 2>>, <<24, 2>>, <<26, 4>> >>

GeneratedGrids ==
  LET cand == {CandidateCells[i] : i \in 1..Min(NumCells, Len(CandidateCells))}
  IN  {MkGrid(NUM_WEEKS, c) : c \in UNION {[S -> 1..MaxLevel] : S \in SUBSET cand}}

Grids == {SampleGrid, ZeroGrid, MkGrid(1, EmptyCells)} \cup GeneratedGrids

AllZero(g) == DOMAIN g.cells = {}

\* the ship starts with its cooldown running
Ship_cooling == [x |-> SHIP_START_X * XScale, target_x |-> SHIP_START_X * XScale,
                 shoot_cooldown |-> SHIP_SHOOT_COOLDOWN_FRAMES]

\* -------------------------------------------------------------------- ship
Ship == [x |-> SHIP_START_X * XScale, target_x |-> SHIP_START_X * XScale,
         shoot_cooldown |-> 0]

move_to(s, col) == [s EXCEPT !.target_x = col * XScale]

is_moving(s) == s.x # s.target_x

\* the ship may shoot again when half of the cooldown is over
can_shoot_soon(s) == s.shoot_cooldown <= SHIP_SHOOT_COOLDOWN_FRAMES \div 2

can_shoot(s) == s.shoot_cooldown = 0

\* the cooldown is decremented without the test of line 50
Ship_animate_nofloor(s) ==
  LET x1 == IF s.x < s.target_x THEN Min(s.x + SHIP_SPEED, s.target_x)
            ELSE IF s.x > s.target_x THEN Max(s.x - SHIP_SPEED, s.target_x)
            ELSE s.x
  IN  [s EXCEPT !.x = x1,
                !.shoot_cooldown = @ - 1]

\* the ship takes three steps a tick and does not stop at its target
Ship_animate_overshoot(s) ==
  LET x1 == IF s.x < s.target_x THEN s.x + 3 * SHIP_SPEED
            ELSE IF s.x > s.target_x THEN s.x - 3 * SHIP_SPEED
            ELSE s.x
  IN  [s EXCEPT !.x = x1,
                !.shoot_cooldown = IF @ > 0 THEN @ - 1 ELSE @]

\* the cooldown runs down two a tick
Ship_animate_fastcool(s) ==
  LET x1 == IF s.x < s.target_x THEN Min(s.x + SHIP_SPEED, s.target_x)
            ELSE IF s.x > s.target_x THEN Max(s.x - SHIP_SPEED, s.target_x)
            ELSE s.x
  IN  [s EXCEPT !.x = x1,
                !.shoot_cooldown = IF @ > 0 THEN Max(@ - 2, 0) ELSE @]

Ship_animate(s) ==
  LET x1 == IF s.x < s.target_x THEN Min(s.x + SHIP_SPEED, s.target_x)
            ELSE IF s.x > s.target_x THEN Max(s.x - SHIP_SPEED, s.target_x)
            ELSE s.x
  IN  [s EXCEPT !.x = x1,
                !.shoot_cooldown = IF @ > 0 THEN @ - 1 ELSE @]

\* every explosion gets the small duration
Explosion_allsmall(size) ==
  [size |-> size, frame |-> 0, age |-> 0,
   max_frames |-> EXPLOSION_MAX_FRAMES_SMALL]

\* --------------------------------------------------------------- explosion
\* age is not a field of the class: it counts the ticks the explosion has
\* been in game_state.explosions, for the properties to refer to
Explosion(size) ==
  [size |-> size, frame |-> 0, age |-> 0,
   max_frames |-> IF size = "small" THEN EXPLOSION_MAX_FRAMES_SMALL
                  ELSE EXPLOSION_MAX_FRAMES_LARGE]

\* Explosion.animate: the frame counter goes up by one; the result says
\* whether the explosion removes itself.
Explosion_animate(e) == [e EXCEPT !.frame = @ + 1]

Explosion_done(e) == e.frame >= e.max_frames

\* ------------------------------------------------------------------- enemy
Enemy(x, y, health) == [x |-> x, y |-> y, health |-> health]

\* cells of the grid in construction order: week by week, day by day
CellLess(a, b) == a[1] < b[1] \/ (a[1] = b[1] /\ a[2] < b[2])

RECURSIVE CellsInOrder(_)
CellsInOrder(S) ==
  IF S = {} THEN << >>
  ELSE LET m == CHOOSE a \in S : \A b \in S \ {a} : CellLess(a, b)
       IN  <<m>> \o CellsInOrder(S \ {m})

\* ------------------------------------------------------------- game state
GameState(g) ==
  LET order == CellsInOrder({c \in DOMAIN g.cells : g.cells[c] > 0})
  IN  [ship |-> Ship,
       enemies |-> [i \in 1..Len(order) |->
                      Enemy(order[i][1], order[i][2], g.cells[order[i]])],
       bullets |-> << >>,
       explosions |-> << >>]

\* the value the game state variable holds before generate_frames() has run
NoGameState == [ship |-> Ship, enemies |-> << >>, bullets |-> << >>,
                explosions |-> << >>]

can_take_action(gs) == ~is_moving(gs.ship) /\ can_shoot(gs.ship)

is_complete(gs) == Len(gs.enemies) = 0 /\ Len(gs.bullets) = 0 /\ Len(gs.explosions) = 0

Bullet(x) == [x |-> x, y |-> (SHIP_POSITION_Y - 1) * YScale]

shoot(gs) ==
  [gs EXCEPT !.bullets = Append(@, Bullet(gs.ship.x)),
             !.ship.shoot_cooldown = SHIP_SHOOT_COOLDOWN_FRAMES]

RemoveAt(s, i) == [j \in 1..(Len(s) - 1) |-> IF j < i THEN s[j] ELSE s[j + 1]]

\* the collision test ignores the column
check_collision_anycolumn(b, enemies) ==
  LET hits == {i \in 1..Len(enemies) : enemies[i].y * YScale >= b.y}
  IN  IF hits = {} THEN 0 ELSE CHOOSE i \in hits : \A j \in hits : i <= j

\* the collision test is enemy.y > bullet.y
check_collision_strict(b, enemies) ==
  LET hits == {i \in 1..Len(enemies) :
                 enemies[i].x * XScale = b.x /\ enemies[i].y * YScale > b.y}
  IN  IF hits = {} THEN 0 ELSE CHOOSE i \in hits : \A j \in hits : i <= j

\* Bullet._check_collision: index of the first enemy, in list order, in the
\* bullet's column with enemy.y >= bullet.y; 0 when there is none
check_collision(b, enemies) ==
  LET hits == {i \in 1..Len(enemies) :
                 enemies[i].x * XScale = b.x /\ enemies[i].y * YScale >= b.y}
  IN  IF hits = {} THEN 0 ELSE CHOOSE i \in hits : \A j \in hits : i <= j

\* the enemy is removed only once its health is below zero
take_damage_late(gs, i) ==
  LET h == gs.enemies[i].health - 1
  IN  IF h < 0
      THEN [gs EXCEPT !.enemies = RemoveAt(@, i),
                      !.explosions = Append(@, Explosion("large"))]
      ELSE [gs EXCEPT !.enemies[i].health = h]

\* Enemy.take_damage: health goes down by one; at zero the enemy leaves the
\* list and a large explosion is added
take_damage(gs, i) ==
  LET h == gs.enemies[i].health - 1
  IN  IF h <= 0
      THEN [gs EXCEPT !.enemies = RemoveAt(@, i),
                      !.explosions = Append(@, Explosion("large"))]
      ELSE [gs EXCEPT !.enemies[i].health = h]

\* a bullet that hits flies on
Bullet_animate_pierce(b, gs) ==
  LET b1 == [b EXCEPT !.y = @ - BULLET_SPEED]
      hit == check_collision(b1, gs.enemies)
  IN  IF hit # 0
      THEN take_damage([gs EXCEPT !.explosions = Append(@, Explosion("small")),
                                  !.bullets = Append(@, b1)], hit)
      ELSE IF b1.y < BULLET_OFFSCREEN_Y * YScale
      THEN gs
      ELSE [gs EXCEPT !.bullets = Append(@, b1)]

\* a bullet that misses is never taken off the list
Bullet_animate_forever(b, gs) ==
  LET b1 == [b EXCEPT !.y = @ - BULLET_SPEED]
      hit == check_collision(b1, gs.enemies)
  IN  IF hit # 0
      THEN take_damage([gs EXCEPT !.explosions = Append(@, Explosion("small"))], hit)
      ELSE [gs EXCEPT !.bullets = Append(@, b1)]

\* Bullet.animate for the bullet b; gs.bullets holds the bullets that stay
Bullet_animate(b, gs) ==
  LET b1 == [b EXCEPT !.y = @ - BULLET_SPEED]
      hit == check_collision(b1, gs.enemies)
  IN  IF hit # 0
      THEN take_damage([gs EXCEPT !.explosions = Append(@, Explosion("small"))], hit)
      ELSE IF b1.y < BULLET_OFFSCREEN_Y * YScale
      THEN gs
      ELSE [gs EXCEPT !.bullets = Append(@, b1)]

RECURSIVE AnimateBullets(_, _)
AnimateBullets(todo, gs) ==
  IF todo = << >> THEN gs
  ELSE AnimateBullets(Tail(todo), Bullet_animate(Head(todo), gs))

\* "for explosion in self.explosions: explosion.animate()": the list
\* iterator keeps a position and looks at the list as it is at each step;
\* when the explosion at position i removes itself the later ones move down
\* by one and the one that lands on position i is passed over
RECURSIVE IterExplosions(_, _)
IterExplosions(list, i) ==
  IF i > Len(list) THEN list
  ELSE LET e == Explosion_animate(list[i])
       IN  IF Explosion_done(e) THEN IterExplosions(RemoveAt(list, i), i + 1)
           ELSE IterExplosions([list EXCEPT ![i] = e], i + 1)

\* the explosions' part of the tick, on the list the bullets' part has left
AnimateExplosions(exps) ==
  IterExplosions([i \in 1..Len(exps) |-> [exps[i] EXCEPT !.age = @ + 1]], 1)

\* GameState.animate: one tick: ship, then bullets, then explosions
GameState_animate(gs) ==
  LET g1 == [gs EXCEPT !.ship = Ship_animate(@)]
      g2 == AnimateBullets(g1.bullets, [g1 EXCEPT !.bullets = << >>])
  IN  [g2 EXCEPT !.explosions = AnimateExplosions(@)]

\* the ship's step is SHIP_SPEED taken as cells per second at 25 fps and
\* scaled by the time step
animate_scaled(gs, dt) ==
  LET step == (SHIP_SPEED * 25 * dt.num) \div dt.den
      s == gs.ship
      x1 == IF s.x < s.target_x THEN Min(s.x + step, s.target_x)
            ELSE IF s.x > s.target_x THEN Max(s.x - step, s.target_x)
            ELSE s.x
      g1 == [gs EXCEPT !.ship = [s EXCEPT !.x = x1,
                                          !.shoot_cooldown = IF @ > 0 THEN @ - 1 ELSE @]]
      g2 == AnimateBullets(g1.bullets, [g1 EXCEPT !.bullets = << >>])
  IN  [g2 EXCEPT !.explosions = AnimateExplosions(@)]

\* game_state.animate(self.delta_time) as the animator calls it: the time
\* step is handed over, but Ship.animate() and Explosion.animate() take no
\* argument and the speeds are per tick, so the tick does not use it
animate(gs, dt) == GameState_animate(gs)

\* -------------------------------------------------------------- strategies
Action(x, sh) == [x |-> x, shoot |-> sh]

NoAction == [x |-> -1, shoot |-> FALSE]

StrategyKinds == {"column", "row", "random", "custom"}

ScriptColumns == {24}

Strategy(kind) == [kind |-> kind, started |-> FALSE, pending |-> {}, left |-> MaxScript]

\* the generator body starts at the first request: it then reads the enemies
begin(st, gs) ==
  IF st.started THEN st
  ELSE [st EXCEPT !.started = TRUE,
                  !.pending = {<<gs.enemies[i].x, gs.enemies[i].y>> : i \in 1..Len(gs.enemies)}]

RowLess(a, b) == a[2] < b[2] \/ (a[2] = b[2] /\ a[1] < b[1])

Alive(gs, p) == \E i \in 1..Len(gs.enemies) : gs.enemies[i].x = p[1] /\ gs.enemies[i].y = p[2]

\* ColumnStrategy.generate_actions: columns left to right, one action for
\* each enemy of the column
ColumnStrategy(st, gs) ==
  LET s1 == begin(st, gs)
  IN  IF s1.pending = {} THEN {[action |-> NoAction, st |-> s1]}
      ELSE LET p == CHOOSE a \in s1.pending : \A b \in s1.pending \ {a} : CellLess(a, b)
           IN  {[action |-> Action(p[1], TRUE), st |-> [s1 EXCEPT !.pending = @ \ {p}]]}

\* RowStrategy.generate_actions: rows top to bottom, one action for each
\* enemy of the row
RowStrategy(st, gs) ==
  LET s1 == begin(st, gs)
  IN  IF s1.pending = {} THEN {[action |-> NoAction, st |-> s1]}
      ELSE LET p == CHOOSE a \in s1.pending : \A b \in s1.pending \ {a} : RowLess(a, b)
           IN  {[action |-> Action(p[1], TRUE), st |-> [s1 EXCEPT !.pending = @ \ {p}]]}

\* RandomStrategy.generate_actions: one action for each remaining enemy, in
\* any order
RandomStrategy(st, gs) ==
  LET s1 == begin(st, gs)
      live == {p \in s1.pending : Alive(gs, p)}
  IN  IF live = {} THEN {[action |-> NoAction, st |-> [s1 EXCEPT !.pending = {}]]}
      ELSE {[action |-> Action(p[1], TRUE), st |-> [s1 EXCEPT !.pending = live \ {p}]] : p \in live}

\* any other BaseStrategy: a finite sequence of at most MaxScript actions
CustomStrategy(st, gs) ==
  LET s1 == [st EXCEPT !.started = TRUE]
  IN  {[action |-> NoAction, st |-> [s1 EXCEPT !.left = 0]]}
      \cup (IF s1.left = 0 THEN {}
            ELSE {[action |-> Action(c, sh), st |-> [s1 EXCEPT !.left = @ - 1]] :
                    c \in ScriptColumns, sh \in BOOLEAN})

\* the outcomes of asking the strategy's generator for its next action;
\* NoAction stands for the end of the sequence
generate_actions(st, gs) ==
  CASE st.kind = "column" -> ColumnStrategy(st, gs)
    [] st.kind = "row"    -> RowStrategy(st, gs)
    [] st.kind = "random" -> RandomStrategy(st, gs)
    [] OTHER              -> CustomStrategy(st, gs)

\* ------------------------------------------------------------------- state
VARIABLES
  grid,          \* Animator.contribution_data
  strat,         \* Animator.strategy and the state of its action generator
  cap,           \* the max_frames argument of generate_frames, or None
  max_frames,    \* the local max_frames of generate_frames, counted down
  game_state,    \* the GameState of the run
  opc,           \* position of generate_frames
  pc,            \* position of _generate_frames
  action,        \* the loop variable of the for loop of _generate_frames
  force_kill_countdown,
  trail_i,       \* frames the trailing loop has yielded
  want,          \* the consumer has asked for a frame and waits for it
  running,       \* _generate_frames is executing (not suspended at a yield)
  gen_out,       \* the frame _generate_frames yielded last
  handoff,       \* next(gen) has returned gen_out and it is not yet yielded
  frames,        \* what the consumer has received: count, first and last frame
  log,           \* history of the calls made so far
  fps,           \* Animator.fps
  cli,           \* the command line process: arguments, position, outcome
  fs             \* the files the process reads and writes

vars == <<grid, strat, cap, max_frames, game_state, opc, pc, action,
          force_kill_countdown, trail_i, want, running, gen_out, handoff,
          frames, log, fps, cli, fs>>

\* what the frame generator leaves alone
env == <<fps, cli, fs>>

\* the values of cli and fs in runs that have no command line
NoCli == [stage |-> "none"]

NoFiles == [p \in {} |-> << >>]

\* Animator.__init__: self.delta_time = 1.0 / fps, as the fraction 1 / fps
delta_time(f) == [num |-> 1, den |-> f]

\* Animator.__init__: self.frame_duration = 1000 // fps
frame_duration(f) == 1000 \div f

\* fps of the web app (25) and of a frame of FRAME_DURATION_MS (50)
FpsValues == {WEB_FPS, 1000 \div FRAME_DURATION_MS}

Caps == {None} \cup (1..MaxCap) \cup {WEB_MAX_FRAMES}

NoFrame == [tick |-> -1]

\* Renderer.render_frame: the frame shows the game state; tick stands for the
\* starfield, which moves once per animate()
render_frame(gs, l) == [tick |-> l.animate_calls, ship |-> gs.ship, enemies |-> gs.enemies,
                        bullets |-> gs.bullets, explosions |-> gs.explosions]

Log0 == [animate_calls |-> 0, render_calls |-> 0, shoot_calls |-> 0, move_calls |-> 0,
         action_requests |-> 0, actions |-> 0, since_animate |-> 0,
         init_frames |-> 0, stream_frames |-> 0, drain_frames |-> 0,
         trail |-> << >>, calls_before_first |-> -1,
         shot_at |-> -1, shot_frames |-> -1]

Init ==
  /\ grid \in Grids
  /\ strat \in {Strategy(k) : k \in StrategyKinds}
  /\ cap \in Caps
  /\ max_frames = cap
  /\ game_state = NoGameState
  /\ opc = "start"
  /\ pc = "init_frame"
  /\ action = NoAction
  /\ force_kill_countdown = FORCE_KILL_COUNTDOWN
  /\ trail_i = 0
  /\ want = FALSE
  /\ running = FALSE
  /\ gen_out = NoFrame
  /\ handoff = FALSE
  /\ frames = [n |-> 0, first |-> NoFrame, last |-> NoFrame]
  /\ log = Log0
  /\ fps \in FpsValues
  /\ cli = NoCli
  /\ fs = NoFiles

\* ---------------------------------------------------------------- consumer
\* The consumer (list(), an encoder) calls next() on generate_frames().  With
\* max_frames None the call resumes _generate_frames through the yield from.
Pull ==
  /\ ~want
  /\ opc \notin {"finished", "error"}
  /\ want' = TRUE
  /\ running' = (opc = "delegate")
  /\ UNCHANGED <<env, grid, strat, cap, max_frames, game_state, opc, pc, action,
                 force_kill_countdown, trail_i, gen_out, handoff, frames, log>>

Deliver(f) == [n |-> frames.n + 1,
               first |-> IF frames.n = 0 THEN f ELSE frames.first,
               last |-> f]

\* the game state is built without the contribution data
Start_nodata ==
  /\ opc = "start" /\ want
  /\ game_state' = NoGameState
  /\ IF max_frames # None
     THEN opc' = "capped_loop" /\ running' = FALSE
     ELSE opc' = "delegate" /\ running' = TRUE
  /\ UNCHANGED <<env, grid, strat, cap, max_frames, pc, action, force_kill_countdown,
                 trail_i, want, gen_out, handoff, frames, log>>

\* --------------------------------------------------------- generate_frames
\* lines 50-53 and, without a cap, the start of the yield from of line 59
Start ==
  /\ opc = "start" /\ want
  /\ game_state' = GameState(grid)
  /\ IF max_frames # None
     THEN opc' = "capped_loop" /\ running' = FALSE
     ELSE opc' = "delegate" /\ running' = TRUE
  /\ UNCHANGED <<env, grid, strat, cap, max_frames, pc, action, force_kill_countdown,
                 trail_i, want, gen_out, handoff, frames, log>>

\* the loop test is max_frames >= 0
CappedLoop_offbyone ==
  /\ opc = "capped_loop" /\ want
  /\ IF max_frames >= 0
     THEN /\ max_frames' = max_frames - 1
          /\ opc' = "capped_next"
          /\ running' = TRUE
          /\ want' = want
     ELSE /\ opc' = "finished"
          /\ want' = FALSE
          /\ UNCHANGED <<max_frames, running>>
  /\ UNCHANGED <<env, grid, strat, cap, game_state, pc, action, force_kill_countdown,
                 trail_i, gen_out, handoff, frames, log>>

\* lines 55-57: while max_frames > 0: max_frames -= 1; next(gen)
CappedLoop ==
  /\ opc = "capped_loop" /\ want
  /\ IF max_frames > 0
     THEN /\ max_frames' = max_frames - 1
          /\ opc' = "capped_next"
          /\ running' = TRUE
          /\ want' = want
     ELSE /\ opc' = "finished"
          /\ want' = FALSE
          /\ UNCHANGED <<max_frames, running>>
  /\ UNCHANGED <<env, grid, strat, cap, game_state, pc, action, force_kill_countdown,
                 trail_i, gen_out, handoff, frames, log>>

\* line 57: yield next(gen), next(gen) having returned a frame
CappedYield ==
  /\ opc = "capped_next" /\ handoff
  /\ frames' = Deliver(gen_out)
  /\ handoff' = FALSE
  /\ want' = FALSE
  /\ opc' = "capped_loop"
  /\ UNCHANGED <<env, grid, strat, cap, max_frames, game_state, pc, action,
                 force_kill_countdown, trail_i, running, gen_out, log>>

\* line 57: next(gen) on the exhausted generator raises StopIteration inside
\* the generator generate_frames, which Python turns into a RuntimeError
CappedStop ==
  /\ opc = "capped_next" /\ running /\ pc = "done"
  /\ opc' = "error"
  /\ running' = FALSE
  /\ want' = FALSE
  /\ UNCHANGED <<env, grid, strat, cap, max_frames, game_state, pc, action,
                 force_kill_countdown, trail_i, gen_out, handoff, frames, log>>

\* line 59: the yield from ends when _generate_frames ends
DelegateEnd ==
  /\ opc = "delegate" /\ running /\ pc = "done"
  /\ opc' = "finished"
  /\ running' = FALSE
  /\ want' = FALSE
  /\ UNCHANGED <<env, grid, strat, cap, max_frames, game_state, pc, action,
                 force_kill_countdown, trail_i, gen_out, handoff, frames, log>>

\* an eager generator: it does not suspend at the yield
YieldOf_eager(phase, gs, l) ==
  LET f == render_frame(gs, l)
      calls == l.animate_calls + l.move_calls + l.shoot_calls + l.action_requests
  IN  /\ gen_out' = f
      /\ running' = TRUE
      /\ log' = [l EXCEPT
                   !.render_calls = @ + 1,
                   !.since_animate = @ + 1,
                   !.calls_before_first = IF l.render_calls = 0 THEN calls ELSE @,
                   !.init_frames = IF phase = "init" THEN @ + 1 ELSE @,
                   !.stream_frames = IF phase = "stream" THEN @ + 1 ELSE @,
                   !.drain_frames = IF phase = "drain" THEN @ + 1 ELSE @,
                   !.trail = IF phase = "trail" THEN Append(@, f) ELSE @]
      /\ IF opc = "delegate"
         THEN frames' = Deliver(f) /\ want' = FALSE /\ handoff' = FALSE
         ELSE handoff' = TRUE /\ UNCHANGED <<frames, want>>

\* -------------------------------------------------------- _generate_frames
\* yield renderer.render_frame(): the generator is suspended; through the
\* yield from the frame reaches the consumer, otherwise next(gen) returns it
YieldOf(phase, gs, l) ==
  LET f == render_frame(gs, l)
      calls == l.animate_calls + l.move_calls + l.shoot_calls + l.action_requests
  IN  /\ gen_out' = f
      /\ running' = FALSE
      /\ log' = [l EXCEPT
                   !.render_calls = @ + 1,
                   !.since_animate = @ + 1,
                   !.calls_before_first = IF l.render_calls = 0 THEN calls ELSE @,
                   !.init_frames = IF phase = "init" THEN @ + 1 ELSE @,
                   !.stream_frames = IF phase = "stream" THEN @ + 1 ELSE @,
                   !.drain_frames = IF phase = "drain" THEN @ + 1 ELSE @,
                   !.trail = IF phase = "trail" THEN Append(@, f) ELSE @]
      /\ IF opc = "delegate"
         THEN frames' = Deliver(f) /\ want' = FALSE /\ handoff' = FALSE
         ELSE handoff' = TRUE /\ UNCHANGED <<frames, want>>

Yield(phase) == YieldOf(phase, game_state, log)

Ticked(l) == [l EXCEPT !.animate_calls = @ + 1, !.since_animate = 0]

\* game_state.animate(self.delta_time)
Animate ==
  /\ log.animate_calls < TickLimit
  /\ game_state' = animate(game_state, delta_time(fps))
  /\ log' = Ticked(log)

\* a tick runs before the first frame is rendered
InitFrame_ticked ==
  /\ running /\ pc = "init_frame"
  /\ game_state' = GameState_animate(game_state)
  /\ YieldOf("init", GameState_animate(game_state), Ticked(log))
  /\ pc' = "next_action"
  /\ UNCHANGED <<env, grid, strat, cap, max_frames, opc, action,
                 force_kill_countdown, trail_i>>

\* line 77
InitFrame ==
  /\ running /\ pc = "init_frame"
  /\ Yield("init")
  /\ pc' = "next_action"
  /\ UNCHANGED <<env, grid, strat, cap, max_frames, game_state, opc, action,
                 force_kill_countdown, trail_i>>

\* the action is applied without its shot
StreamAction_noshoot ==
  /\ running /\ pc = "next_action"
  /\ \E r \in generate_actions(strat, game_state) :
       /\ r.action # NoAction
       /\ strat' = r.st
       /\ action' = [r.action EXCEPT !.shoot = (log.actions = 0)]
       /\ game_state' = [game_state EXCEPT !.ship = move_to(@, r.action.x)]
  /\ log' = [log EXCEPT !.action_requests = @ + 1, !.actions = @ + 1, !.move_calls = @ + 1]
  /\ pc' = "gate"
  /\ UNCHANGED <<env, grid, cap, max_frames, opc, force_kill_countdown, trail_i,
                 want, running, gen_out, handoff, frames>>

\* lines 80-81: the strategy gives an action; ship.move_to(action.x)
StreamAction ==
  /\ running /\ pc = "next_action"
  /\ \E r \in generate_actions(strat, game_state) :
       /\ r.action # NoAction
       /\ strat' = r.st
       /\ action' = r.action
       /\ game_state' = [game_state EXCEPT !.ship = move_to(@, r.action.x)]
  /\ log' = [log EXCEPT !.action_requests = @ + 1, !.actions = @ + 1, !.move_calls = @ + 1]
  /\ pc' = "gate"
  /\ UNCHANGED <<env, grid, cap, max_frames, opc, force_kill_countdown, trail_i,
                 want, running, gen_out, handoff, frames>>

\* lines 80 and 91: the strategy has no further action
StreamEnd ==
  /\ running /\ pc = "next_action"
  /\ \E r \in generate_actions(strat, game_state) :
       /\ r.action = NoAction
       /\ strat' = r.st
  /\ log' = [log EXCEPT !.action_requests = @ + 1]
  /\ force_kill_countdown' = FORCE_KILL_COUNTDOWN
  /\ pc' = "drain"
  /\ UNCHANGED <<env, grid, cap, max_frames, game_state, opc, action, trail_i,
                 want, running, gen_out, handoff, frames>>

\* lines 82-83: can_take_action() is False: animate
GateWait ==
  /\ running /\ pc = "gate"
  /\ ~can_take_action(game_state)
  /\ Animate
  /\ pc' = "wait_yield"
  /\ UNCHANGED <<env, grid, strat, cap, max_frames, opc, action, force_kill_countdown,
                 trail_i, want, running, gen_out, handoff, frames>>

\* the next action is asked for after each frame of the wait
WaitYield_pull ==
  /\ running /\ pc = "wait_yield"
  /\ Yield("stream")
  /\ pc' = "next_action"
  /\ UNCHANGED <<env, grid, strat, cap, max_frames, game_state, opc, action,
                 force_kill_countdown, trail_i>>

\* line 84
WaitYield ==
  /\ running /\ pc = "wait_yield"
  /\ Yield("stream")
  /\ pc' = "gate"
  /\ UNCHANGED <<env, grid, strat, cap, max_frames, game_state, opc, action,
                 force_kill_countdown, trail_i>>

\* the loop waits for the ship to arrive but not for the cooldown
GateOpen_nocooldown ==
  /\ running /\ pc = "gate"
  /\ ~is_moving(game_state.ship)
  /\ pc' = "fire"
  /\ UNCHANGED <<env, grid, strat, cap, max_frames, game_state, opc, action,
                 force_kill_countdown, trail_i, want, running, gen_out, handoff,
                 frames, log>>

\* the loop waits for the cooldown but not for the ship to arrive
GateOpen_early ==
  /\ running /\ pc = "gate"
  /\ can_shoot(game_state.ship)
  /\ pc' = "fire"
  /\ UNCHANGED <<env, grid, strat, cap, max_frames, game_state, opc, action,
                 force_kill_countdown, trail_i, want, running, gen_out, handoff,
                 frames, log>>

\* line 82: the loop ends
GateOpen ==
  /\ running /\ pc = "gate"
  /\ can_take_action(game_state)
  /\ pc' = "fire"
  /\ UNCHANGED <<env, grid, strat, cap, max_frames, game_state, opc, action,
                 force_kill_countdown, trail_i, want, running, gen_out, handoff,
                 frames, log>>

\* lines 86-87: action.shoot: game_state.shoot()
Shoot ==
  /\ running /\ pc = "fire"
  /\ action.shoot
  /\ game_state' = shoot(game_state)
  /\ log' = [log EXCEPT !.shoot_calls = @ + 1,
                        !.shot_at = log.animate_calls,
                        !.shot_frames = log.render_calls]
  /\ pc' = "shoot_animate"
  /\ UNCHANGED <<env, grid, strat, cap, max_frames, opc, action, force_kill_countdown,
                 trail_i, want, running, gen_out, handoff, frames>>

\* line 86: the action does not shoot
SkipShoot ==
  /\ running /\ pc = "fire"
  /\ ~action.shoot
  /\ pc' = "next_action"
  /\ UNCHANGED <<env, grid, strat, cap, max_frames, game_state, opc, action,
                 force_kill_countdown, trail_i, want, running, gen_out, handoff,
                 frames, log>>

\* two ticks run after the shot
ShootAnimate_twice ==
  /\ running /\ pc = "shoot_animate"
  /\ log.animate_calls + 1 < TickLimit
  /\ game_state' = GameState_animate(GameState_animate(game_state))
  /\ log' = Ticked(Ticked(log))
  /\ pc' = "shoot_yield"
  /\ UNCHANGED <<env, grid, strat, cap, max_frames, opc, action, force_kill_countdown,
                 trail_i, want, running, gen_out, handoff, frames>>

\* line 88
ShootAnimate ==
  /\ running /\ pc = "shoot_animate"
  /\ Animate
  /\ pc' = "shoot_yield"
  /\ UNCHANGED <<env, grid, strat, cap, max_frames, opc, action, force_kill_countdown,
                 trail_i, want, running, gen_out, handoff, frames>>

\* line 89
ShootYield ==
  /\ running /\ pc = "shoot_yield"
  /\ Yield("stream")
  /\ pc' = "next_action"
  /\ UNCHANGED <<env, grid, strat, cap, max_frames, game_state, opc, action,
                 force_kill_countdown, trail_i>>

\* the loop body runs once before is_complete() is tested
DrainAnimate_dowhile ==
  /\ running /\ pc = "drain"
  /\ ~is_complete(game_state) \/ force_kill_countdown = FORCE_KILL_COUNTDOWN
  /\ Animate
  /\ pc' = "drain_yield"
  /\ UNCHANGED <<env, grid, strat, cap, max_frames, opc, action, force_kill_countdown,
                 trail_i, want, running, gen_out, handoff, frames>>

\* lines 93-94: not is_complete(): animate
DrainAnimate ==
  /\ running /\ pc = "drain"
  /\ ~is_complete(game_state)
  /\ Animate
  /\ pc' = "drain_yield"
  /\ UNCHANGED <<env, grid, strat, cap, max_frames, opc, action, force_kill_countdown,
                 trail_i, want, running, gen_out, handoff, frames>>

\* line 95
DrainYield ==
  /\ running /\ pc = "drain_yield"
  /\ Yield("drain")
  /\ pc' = "drain_dec"
  /\ UNCHANGED <<env, grid, strat, cap, max_frames, game_state, opc, action,
                 force_kill_countdown, trail_i>>

\* the countdown is never tested
DrainCountdown_nobreak ==
  /\ running /\ pc = "drain_dec"
  /\ force_kill_countdown' = force_kill_countdown - 1
  /\ pc' = "drain"
  /\ UNCHANGED <<env, grid, strat, cap, max_frames, game_state, opc, action, trail_i,
                 want, running, gen_out, handoff, frames, log>>

\* the loop breaks when the countdown is below 0
DrainCountdown_late ==
  /\ running /\ pc = "drain_dec"
  /\ force_kill_countdown' = force_kill_countdown - 1
  /\ pc' = IF force_kill_countdown' < 0 THEN "trail" ELSE "drain"
  /\ UNCHANGED <<env, grid, strat, cap, max_frames, game_state, opc, action, trail_i,
                 want, running, gen_out, handoff, frames, log>>

\* lines 97-99: force_kill_countdown -= 1; break at 0
DrainCountdown ==
  /\ running /\ pc = "drain_dec"
  /\ force_kill_countdown' = force_kill_countdown - 1
  /\ pc' = IF force_kill_countdown' <= 0 THEN "trail" ELSE "drain"
  /\ UNCHANGED <<env, grid, strat, cap, max_frames, game_state, opc, action, trail_i,
                 want, running, gen_out, handoff, frames, log>>

\* line 93: is_complete(): the loop ends
DrainEnd ==
  /\ running /\ pc = "drain"
  /\ is_complete(game_state)
  /\ pc' = "trail"
  /\ UNCHANGED <<env, grid, strat, cap, max_frames, game_state, opc, action,
                 force_kill_countdown, trail_i, want, running, gen_out, handoff,
                 frames, log>>

\* a tick runs before each trailing frame
TrailYield_ticked ==
  /\ running /\ pc = "trail"
  /\ trail_i < TRAILING_FRAMES
  /\ log.animate_calls < TickLimit
  /\ game_state' = GameState_animate(game_state)
  /\ YieldOf("trail", GameState_animate(game_state), Ticked(log))
  /\ trail_i' = trail_i + 1
  /\ pc' = "trail"
  /\ UNCHANGED <<env, grid, strat, cap, max_frames, opc, action,
                 force_kill_countdown>>

\* lines 101-102: for _ in range(5): yield renderer.render_frame()
TrailYield ==
  /\ running /\ pc = "trail"
  /\ trail_i < TRAILING_FRAMES
  /\ Yield("trail")
  /\ trail_i' = trail_i + 1
  /\ pc' = "trail"
  /\ UNCHANGED <<env, grid, strat, cap, max_frames, game_state, opc, action,
                 force_kill_countdown>>

\* line 101: the range is used up; the generator returns
TrailEnd ==
  /\ running /\ pc = "trail"
  /\ trail_i >= TRAILING_FRAMES
  /\ pc' = "done"
  /\ UNCHANGED <<env, grid, strat, cap, max_frames, game_state, opc, action,
                 force_kill_countdown, trail_i, want, running, gen_out, handoff,
                 frames, log>>

Next ==
  \/ Pull
  \/ Start
  \/ CappedLoop
  \/ CappedYield
  \/ CappedStop
  \/ DelegateEnd
  \/ InitFrame
  \/ StreamAction
  \/ StreamEnd
  \/ GateWait
  \/ WaitYield
  \/ GateOpen
  \/ Shoot
  \/ SkipShoot
  \/ ShootAnimate
  \/ ShootYield
  \/ DrainAnimate
  \/ DrainYield
  \/ DrainCountdown
  \/ DrainEnd
  \/ TrailYield
  \/ TrailEnd

Spec == Init /\ [][Next]_vars

\* the consumer keeps asking and the single thread keeps running
FairSpec == Spec /\ WF_vars(Next)

TypeOK ==
  /\ opc \in {"start", "capped_loop", "capped_next", "delegate", "finished", "error"}
  /\ pc \in {"init_frame", "next_action", "gate", "wait_yield", "fire", "shoot_animate",
             "shoot_yield", "drain", "drain_yield", "drain_dec", "trail", "done"}
  /\ log.animate_calls < TickLimit

\* ================================================================== claims
Ready(gs) == gs.ship.x = gs.ship.target_x /\ gs.ship.shoot_cooldown = 0

Calls(l) == l.animate_calls + l.move_calls + l.shoot_calls + l.action_requests

Uncapped == cap = None

Ended == opc = "finished"

BuiltIn == strat.kind \in {"column", "row", "random"}

\* C1: the first frame the consumer receives is the render of the game state
\* as constructed from the grid, and until a first frame has been rendered
\* there has been no animate(), move_to() or shoot() call and no request to
\* the strategy
C1_FirstFrameIsInitialState ==
  /\ log.render_calls = 0 => Calls(log) = 0 /\ ~strat.started
  /\ log.render_calls >= 1 => log.calls_before_first = 0
  /\ frames.n >= 1 => frames.first = render_frame(GameState(grid), Log0)

C1_Witness ==
  /\ frames.n >= 2
  /\ log.animate_calls >= 1
  /\ log.actions >= 1
  /\ game_state # GameState(grid)

\* C2: without a cap, and with the consumer asking on, generate_frames()
\* comes to its end having yielded at least one frame
C2_Terminates == Uncapped => <>(Ended /\ frames.n >= 1)

C2_Witness ==
  /\ Uncapped /\ Ended
  /\ log.stream_frames >= SHIP_SHOOT_COOLDOWN_FRAMES
  /\ log.drain_frames = FORCE_KILL_COUNTDOWN
  /\ ~is_complete(game_state)

\* C3: on a grid whose levels are all 0, with one of the three strategies,
\* there is no enemy, no action and no animate() call, and an uncapped run
\* that has ended has yielded 6 frames: 1 initial, no streaming frame, no
\* draining frame and 5 trailing frames
C3_ZeroGridSixFrames ==
  (AllZero(grid) /\ BuiltIn) =>
     /\ opc # "start" => game_state = [NoGameState EXCEPT !.ship = Ship]
     /\ Len(game_state.enemies) = 0
     /\ log.actions = 0
     /\ log.animate_calls = 0
     /\ log.stream_frames = 0
     /\ log.drain_frames = 0
     /\ (Uncapped /\ Ended) =>
           /\ frames.n = 6
           /\ log.init_frames = 1
           /\ Len(log.trail) = 5

C3_Witness ==
  /\ grid = ZeroGrid /\ BuiltIn
  /\ Uncapped /\ Ended
  /\ frames.n = 6

SampleRun == grid = SampleGrid /\ strat.kind = "column" /\ Uncapped /\ Ended

C5_CapIsPrefix ==
  ~Uncapped =>
     /\ frames.n <= cap
     /\ frames.n + max_frames + (IF opc \in {"capped_next", "error"} THEN 1 ELSE 0) = cap
     /\ handoff => log.render_calls = frames.n + 1
     /\ ~handoff => log.render_calls = frames.n /\ frames.last = gen_out
     /\ frames.n = cap => ~running
     /\ Ended => frames.n = cap

C5_Witness ==
  /\ ~Uncapped /\ Ended
  /\ frames.n = cap
  /\ pc = "gate"
  /\ log.stream_frames >= 1

\* C6 as stated: a run with a cap never ends in an error; when the sequence
\* is shorter than the cap the run yields it all and ends normally
C6_CapIsNotARequiredCount == ~Uncapped => opc # "error"

\* C7: Draining yields at most 100 frames; when it has ended after fewer
\* than 100 the game state is complete; when the budget is used up the
\* generator goes on to the trailing frames and an uncapped run has no error
C7_DrainBudget ==
  /\ log.drain_frames <= 100
  /\ pc = "drain_yield" => log.drain_frames < 100
  /\ (pc \in {"trail", "done"} /\ log.drain_frames < 100) => is_complete(game_state)
  /\ force_kill_countdown <= 0 => pc \in {"trail", "done"}
  /\ Uncapped => opc # "error"

C7_Witness ==
  /\ pc = "done"
  /\ log.drain_frames = 100
  /\ ~is_complete(game_state)
  /\ Uncapped /\ Ended

\* C8: the trailing frames all show the game state as it is after the last
\* tick, and an uncapped run that has ended has yielded 5 of them, the last
\* of which is the last frame of the sequence
C8_TrailingFrames ==
  /\ \A i \in 1..Len(log.trail) : log.trail[i] = render_frame(game_state, log)
  /\ Len(log.trail) = trail_i
  /\ pc = "done" => Len(log.trail) = 5
  /\ (Uncapped /\ Ended) => Len(log.trail) = 5 /\ frames.last = log.trail[5]

C8_Witness ==
  /\ Uncapped /\ Ended
  /\ Len(log.trail) = 5
  /\ log.animate_calls > 0
  /\ Len(game_state.enemies) > 0
  /\ game_state.ship.x # SHIP_START_X * XScale

\* C9: every step that calls shoot() starts in a state where the ship is at
\* its target column and the cooldown is 0
C9_ShootOnlyWhenReady ==
  [][log'.shoot_calls # log.shoot_calls => (pc = "fire" /\ Ready(game_state))]_vars

C9_Witness ==
  /\ log.shoot_calls >= 2
  /\ log.stream_frames >= SHIP_SHOOT_COOLDOWN_FRAMES

\* C10: a frame is rendered after every animate() before the next one, and
\* an uncapped run that has ended has yielded as many frames as there were
\* animate() calls, plus 6
C10_OneFramePerTick ==
  /\ pc \in {"wait_yield", "shoot_yield", "drain_yield"} => log.since_animate = 0
  /\ (pc \in {"gate", "fire", "shoot_animate", "next_action", "drain", "drain_dec"}
        /\ log.animate_calls > 0) => log.since_animate = 1
  /\ (Uncapped /\ Ended) => frames.n = log.animate_calls + 6

C10_Witness ==
  /\ Uncapped /\ Ended
  /\ log.shoot_calls >= 1
  /\ log.drain_frames >= 1
  /\ frames.n = log.animate_calls + 6

\* C11: the frame sequence is lazy.  While no frame request is pending nothing
\* runs: the game state, the strategy and the call counters stay as they are,
\* so a consumer that stops pulling freezes the game; and whenever the
\* consumer holds k >= 1 frames with no request pending, at most k - 1
\* animate() calls have run (none before the first request)
C11_Lazy ==
  [][ /\ (~want => UNCHANGED <<game_state, strat, log, pc, gen_out>>)
      /\ (~want' => log'.animate_calls <= (IF frames'.n = 0 THEN 0 ELSE frames'.n - 1))
    ]_vars

C11_Witness ==
  /\ ~want
  /\ frames.n >= 3
  /\ log.animate_calls = frames.n - 1
  /\ Len(game_state.bullets) > 0
  /\ ~is_complete(game_state)
  /\ pc \notin {"trail", "done"}

\* C12: in every reachable state can_take_action() is false when the ship is
\* off its target column or its cooldown is above 0, and true otherwise
C12_CanTakeAction ==
  LET s == game_state.ship
  IN  /\ (s.x # s.target_x \/ s.shoot_cooldown > 0) => ~can_take_action(game_state)
      /\ ~(s.x # s.target_x \/ s.shoot_cooldown > 0) => can_take_action(game_state)

\* the ship has arrived and only the cooldown holds the next action back
C12_Witness ==
  /\ pc = "gate"
  /\ game_state.ship.x = game_state.ship.target_x
  /\ game_state.ship.shoot_cooldown > 0
  /\ log.shoot_calls >= 1
  /\ ~can_take_action(game_state)

\* ----------------------------------------------- one tick seen from outside
\* the step is one call of GameState.animate()
TickStep == log'.animate_calls = log.animate_calls + 1

\* health of the live enemy at cell (x, y), 0 when there is none
HealthAt(gs, x, y) ==
  LET S == {i \in 1..Len(gs.enemies) : gs.enemies[i].x = x /\ gs.enemies[i].y = y}
  IN  IF S = {} THEN 0 ELSE gs.enemies[CHOOSE i \in S : TRUE].health

\* the bullet b of the state before a tick is still in flight after it
Survives(b, gs2) ==
  \E k \in 1..Len(gs2.bullets) :
     gs2.bullets[k] = [x |-> b.x, y |-> b.y - BULLET_SPEED]

\* the tick takes the bullet b below the off-screen row
LeavesScreen(b) == b.y - BULLET_SPEED < BULLET_OFFSCREEN_Y * YScale

\* C13: a bullet reduces the health only of enemies in the column it was
\* created at: whenever a tick lowers an enemy's health or removes it, a
\* bullet of that enemy's column ended its flight in that tick; and nothing
\* but a tick changes the enemies
C13_DamageOnlyInColumn ==
  [][ IF TickStep
      THEN \A i \in 1..Len(game_state.enemies) :
             LET e == game_state.enemies[i]
             IN  HealthAt(game_state', e.x, e.y) < e.health
                   => \E j \in 1..Len(game_state.bullets) :
                         /\ game_state.bullets[j].x = e.x * XScale
                         /\ ~Survives(game_state.bullets[j], game_state')
      ELSE opc # "start" => game_state'.enemies = game_state.enemies
    ]_vars

\* a bullet has flown up to or past the row of an untouched enemy of another
\* column
C13_Witness ==
  \E j \in 1..Len(game_state.bullets) : \E i \in 1..Len(game_state.enemies) :
     LET b == game_state.bullets[j]
         e == game_state.enemies[i]
     IN  /\ b.x # e.x * XScale
         /\ b.y <= e.y * YScale
         /\ e.health = LevelAt(grid, e.x, e.y)
         /\ log.animate_calls > 0

\* total health of the live enemies of column c
RECURSIVE ColumnHealth(_, _)
ColumnHealth(enemies, c) ==
  IF enemies = << >> THEN 0
  ELSE (IF Head(enemies).x = c THEN Head(enemies).health ELSE 0)
         + ColumnHealth(Tail(enemies), c)

\* number of bullets of column c whose flight the tick ends by a hit
HitsInColumn(gs, gs2, c) ==
  Cardinality({j \in 1..Len(gs.bullets) :
                 /\ gs.bullets[j].x = c * XScale
                 /\ ~Survives(gs.bullets[j], gs2)
                 /\ ~LeavesScreen(gs.bullets[j])})

\* C14: every hit lowers the health of one enemy by exactly 1 (per column,
\* the health lost in a tick is the number of bullets that hit in it), no
\* enemy appears or gains health, and an enemy is in the live set exactly
\* while its health is at least 1: it leaves in the tick that takes its
\* health to 0, not before and not after
C14_HitLowersHealthByOne ==
  [][ /\ \A i \in 1..Len(game_state'.enemies) : game_state'.enemies[i].health >= 1
      /\ TickStep =>
           /\ \A i \in 1..Len(game_state.enemies) :
                LET c == game_state.enemies[i].x
                IN  ColumnHealth(game_state.enemies, c)
                      - ColumnHealth(game_state'.enemies, c)
                    = HitsInColumn(game_state, game_state', c)
           /\ \A i \in 1..Len(game_state.enemies) :
                LET e == game_state.enemies[i]
                IN  HealthAt(game_state', e.x, e.y) \in {e.health, e.health - 1}
           /\ \A i \in 1..Len(game_state'.enemies) :
                LET e == game_state'.enemies[i]
                IN  HealthAt(game_state, e.x, e.y) >= e.health
    ]_vars

\* one enemy has been destroyed and another one is damaged but alive
C14_Witness ==
  /\ Len(game_state.enemies) < Cardinality(DOMAIN grid.cells)
  /\ \E i \in 1..Len(game_state.enemies) :
       LET e == game_state.enemies[i]
       IN  e.health >= 1 /\ e.health < LevelAt(grid, e.x, e.y)

\* number of bullets whose flight the tick ends by a hit
HitsInTick(gs, gs2) ==
  Cardinality({j \in 1..Len(gs.bullets) :
                 ~Survives(gs.bullets[j], gs2) /\ ~LeavesScreen(gs.bullets[j])})

\* explosions created in the tick that has just run, by duration
NewExplosions(gs2, maxf) ==
  Cardinality({i \in 1..Len(gs2.explosions) :
                 gs2.explosions[i].age = 1 /\ gs2.explosions[i].max_frames = maxf})

\* explosions of the state before the tick that the tick has removed: those
\* of before less those of after that are older than this tick
ExplosionsEnded(gs, gs2) ==
  Len(gs.explosions)
    - Cardinality({i \in 1..Len(gs2.explosions) : gs2.explosions[i].age > 1})

\* C15: a tick creates one small explosion per hit and one large explosion
\* per destroyed enemy and no other: a hit that leaves the enemy alive adds 1
\* explosion, a hit that destroys it adds 2 in the same tick; nothing but a
\* tick changes the explosions
C15_ExplosionsPerHit ==
  [][ IF TickStep
      THEN /\ NewExplosions(game_state', EXPLOSION_MAX_FRAMES_SMALL)
                = HitsInTick(game_state, game_state')
           /\ NewExplosions(game_state', EXPLOSION_MAX_FRAMES_LARGE)
                = Len(game_state.enemies) - Len(game_state'.enemies)
           /\ Len(game_state'.explosions)
                = Len(game_state.explosions) - ExplosionsEnded(game_state, game_state')
                  + HitsInTick(game_state, game_state')
                  + (Len(game_state.enemies) - Len(game_state'.enemies))
           /\ ExplosionsEnded(game_state, game_state') >= 0
      ELSE game_state'.explosions = game_state.explosions
    ]_vars

\* a hit has just destroyed an enemy while an earlier explosion still plays
C15_Witness ==
  /\ \E i, j, k \in 1..Len(game_state.explosions) :
       /\ game_state.explosions[i].frame = 1
       /\ game_state.explosions[i].max_frames = EXPLOSION_MAX_FRAMES_SMALL
       /\ game_state.explosions[j].frame = 1
       /\ game_state.explosions[j].max_frames = EXPLOSION_MAX_FRAMES_LARGE
       /\ game_state.explosions[k].frame > 1
  /\ Len(game_state.enemies) < Cardinality(DOMAIN grid.cells)

\* total health of the live enemies
RECURSIVE TotalHealth(_)
TotalHealth(enemies) ==
  IF enemies = << >> THEN 0
  ELSE Head(enemies).health + TotalHealth(Tail(enemies))

\* number of bullets the tick removes because they left the screen
GoneOffScreen(gs, gs2) ==
  Cardinality({j \in 1..Len(gs.bullets) :
                 ~Survives(gs.bullets[j], gs2) /\ LeavesScreen(gs.bullets[j])})

\* C16: a bullet that hits is removed in the tick of the hit, so it damages
\* at most one enemy, by 1: after a tick the bullets in flight are bullets
\* of the state before, one step further up, and the health the enemies lost
\* in the tick is the number of bullets the tick removed for a hit; outside
\* a tick the bullets change only by the one a shot adds
C16_HitRemovesBullet ==
  [][ IF TickStep
      THEN /\ \A k \in 1..Len(game_state'.bullets) :
                \E j \in 1..Len(game_state.bullets) :
                   game_state'.bullets[k]
                     = [game_state.bullets[j] EXCEPT !.y = @ - BULLET_SPEED]
           /\ TotalHealth(game_state.enemies) - TotalHealth(game_state'.enemies)
                = Len(game_state.bullets) - Len(game_state'.bullets)
                  - GoneOffScreen(game_state, game_state')
      ELSE \/ game_state'.bullets = game_state.bullets
           \/ game_state'.bullets
                = Append(game_state.bullets, Bullet(game_state.ship.x))
    ]_vars

\* a bullet has just hit and is gone while a later bullet is still in flight
C16_Witness ==
  /\ Len(game_state.bullets) >= 1
  /\ \E i \in 1..Len(game_state.explosions) :
       /\ game_state.explosions[i].frame = 1
       /\ game_state.explosions[i].max_frames = EXPLOSION_MAX_FRAMES_SMALL
  /\ \E i \in 1..Len(game_state.enemies) :
       LET e == game_state.enemies[i]
       IN  e.health < LevelAt(grid, e.x, e.y)

\* ============================================ the bullet tests as a system
\* tests/test_bullet_collision.py puts enemies and one bullet into a game
\* state by hand and calls bullet.animate().  The enemies of the tests sit at
\* column 5, row 3; the bullet is at column 5 or 6.
TestEnemies ==
  {<< >>} \cup {<<Enemy(5, 3, h)>> : h \in 1..(MaxLevel + 1)}
          \cup {<<Enemy(5, 1, 1), Enemy(5, 3, h)>> : h \in 1..MaxLevel}

\* rows the bullet is put at, in units of 1 / YScale of a row: -5.0, 2.0,
\* 2.5 and 3.0 as in the tests, 3.15 and 3.2 (one step before row 3 and just
\* short of it) and the row a shot starts from
TestBulletYs ==
  {-5 * YScale, 2 * YScale, (5 * YScale) \div 2, 3 * YScale,
   3 * YScale + BULLET_SPEED, 3 * YScale + BULLET_SPEED + 1,
   (SHIP_POSITION_Y - 1) * YScale}

TestInit ==
  /\ grid = ZeroGrid
  /\ strat = Strategy("custom")
  /\ cap = None
  /\ max_frames = None
  /\ game_state \in {[ship |-> Ship, enemies |-> es,
                      bullets |-> <<[x |-> c * XScale, y |-> y]>>,
                      explosions |-> << >>] :
                       es \in TestEnemies, c \in {5, 6}, y \in TestBulletYs}
  /\ opc = "test"
  /\ pc = "done"
  /\ action = NoAction
  /\ force_kill_countdown = FORCE_KILL_COUNTDOWN
  /\ trail_i = 0
  /\ want = FALSE
  /\ running = FALSE
  /\ gen_out = NoFrame
  /\ handoff = FALSE
  /\ frames = [n |-> 0, first |-> NoFrame, last |-> NoFrame]
  /\ log = Log0
  /\ fps = WEB_FPS
  /\ cli = NoCli
  /\ fs = NoFiles

\* if bullet in game_state.bullets: bullet.animate()
TestAnimate ==
  /\ opc = "test"
  /\ Len(game_state.bullets) > 0
  /\ log.animate_calls < TickLimit
  /\ game_state' = AnimateBullets(game_state.bullets,
                                  [game_state EXCEPT !.bullets = << >>])
  /\ log' = Ticked(log)
  /\ UNCHANGED <<env, grid, strat, cap, max_frames, opc, pc, action,
                 force_kill_countdown, trail_i, want, running, gen_out,
                 handoff, frames>>

\* the test keeps calling animate() while the bullet is listed
BulletSpec == TestInit /\ [][TestAnimate]_vars /\ WF_vars(TestAnimate)

\* C17: a bullet collides whenever, after its move, a live enemy of its
\* column has enemy.y >= bullet.y: the tick removes the bullet and the
\* enemies lose health
C17_CollidesAtOrPastRow ==
  [][ TickStep =>
        \A j \in 1..Len(game_state.bullets) :
          LET b == game_state.bullets[j]
          IN  (\E i \in 1..Len(game_state.enemies) :
                 /\ game_state.enemies[i].x * XScale = b.x
                 /\ game_state.enemies[i].y * YScale >= b.y - BULLET_SPEED)
                => /\ ~Survives(b, game_state')
                   /\ TotalHealth(game_state'.enemies)
                        = TotalHealth(game_state.enemies) - 1
                   /\ Len(game_state'.explosions) > Len(game_state.explosions)
    ]_vars

\* the first animate() of a bullet put at or above the enemy's row has hit
C17_Witness ==
  /\ opc = "test"
  /\ log.animate_calls = 1
  /\ game_state.bullets = << >>
  /\ Len(game_state.enemies) >= 1
  /\ Len(game_state.explosions) = 1

JustBuilt == opc \in {"capped_loop", "capped_next", "delegate"} /\ Calls(log) = 0

\* number of enemies at cell (w, d)
EnemiesAt(gs, w, d) ==
  Cardinality({i \in 1..Len(gs.enemies) :
                 gs.enemies[i].x = w /\ gs.enemies[i].y = d})

\* C19: the game state as constructed has exactly one enemy per cell of
\* level above 0, at (week, day), none at a cell of level 0 and none outside
\* the grid; the health of the enemies is strictly increasing with the level
\* of their cells; there are no bullets and no explosions
C19_OneEnemyPerCell ==
  JustBuilt =>
    /\ \A w \in 0..(grid.weeks - 1) : \A d \in 0..(NUM_DAYS - 1) :
         EnemiesAt(game_state, w, d) = (IF LevelAt(grid, w, d) > 0 THEN 1 ELSE 0)
    /\ \A i \in 1..Len(game_state.enemies) :
         /\ game_state.enemies[i].x \in 0..(grid.weeks - 1)
         /\ game_state.enemies[i].y \in 0..(NUM_DAYS - 1)
         /\ game_state.enemies[i].health >= 1
    /\ \A i, j \in 1..Len(game_state.enemies) :
         LET a == game_state.enemies[i]
             b == game_state.enemies[j]
         IN  LevelAt(grid, a.x, a.y) < LevelAt(grid, b.x, b.y) => a.health < b.health
    /\ game_state.bullets = << >>
    /\ game_state.explosions = << >>

\* a grid with cells of different levels and cells of level 0 has been built
C19_Witness ==
  /\ JustBuilt
  /\ \E i, j \in 1..Len(game_state.enemies) :
       game_state.enemies[i].health < game_state.enemies[j].health
  /\ \E d \in 0..(NUM_DAYS - 1) : LevelAt(grid, game_state.enemies[1].x, d) = 0

\* x, in units of 1 / XScale of a column, is at the middle of the columns
\* 0 .. W - 1: between the two central columns, or on the central one
AtMiddle(x, W) == (W - 2) * XScale <= 2 * x /\ 2 * x <= W * XScale

SECTION_START_MARKER == "<!--START_SECTION:space-shooter-->"

SECTION_END_MARKER == "<!--END_SECTION:space-shooter-->"

IMG_OPEN == "<img src=\""

IMG_CLOSE == "\" />"

LF == "\n"

CR == "\r"

\* what encode() of the data URL provider returns: nothing for no frame,
\* else "data:image/webp;base64," followed by the encoded frames
DataUrl(n) == IF n = 0 THEN << >> ELSE <<"data:image/webp;base64,...">>

\* bytes of GIF and WebP files: nothing for no frame
Encoded(fmt, n) == IF n = 0 THEN << >> ELSE <<fmt>>

\* a file of the file system
NoFile == [exists |-> FALSE, content |-> << >>]

File(content) == [exists |-> TRUE, content |-> content]

\* open(path, "r").read(): text mode with universal newlines turns "\r\n"
\* and a lone "\r" into "\n"
RECURSIVE ReadText(_)
ReadText(bytes) ==
  IF bytes = << >> THEN << >>
  ELSE IF Head(bytes) = CR
       THEN IF Len(bytes) >= 2 /\ bytes[2] = LF
            THEN <<LF>> \o ReadText(SubSeq(bytes, 3, Len(bytes)))
            ELSE <<LF>> \o ReadText(Tail(bytes))
       ELSE <<Head(bytes)>> \o ReadText(Tail(bytes))

\* str.find: index of the first occurrence, counted from 0; -1 when absent
Find(text, token) ==
  LET S == {i \in 1..Len(text) : text[i] = token}
  IN  IF S = {} THEN -1 ELSE (CHOOSE i \in S : \A j \in S : i <= j) - 1

\* while after_start < len(content) and content[after_start] in "\r\n"
RECURSIVE SkipForward(_, _)
SkipForward(content, i) ==
  IF i < Len(content) /\ content[i + 1] \in {CR, LF}
  THEN SkipForward(content, i + 1) ELSE i

\* while before_end > after_start and content[before_end - 1] in "\r\n"
RECURSIVE SkipBackward(_, _, _)
SkipBackward(content, i, after_start) ==
  IF i > after_start /\ content[i] \in {CR, LF}
  THEN SkipBackward(content, i - 1, after_start) ELSE i

\* content[a:b] of Python, indices counted from 0
Slice(content, a, b) == SubSeq(content, a + 1, b)

\* the result of a call on a file: the file afterwards and the exception
\* the call raised, "" when it returned
Returned(file) == [file |-> file, raised |-> ""]

\* a call that has opened the file for writing before it raises
Raised_truncating(file, exc) == [file |-> File(<< >>), raised |-> exc]

Raised(file, exc) == [file |-> file, raised |-> exc]

\* write() that puts the bare img tag into a new file, without the markers
WebpDataUrl_write_bare(file, data) ==
  LET img_tag == <<IMG_OPEN>> \o data \o <<IMG_CLOSE>>
  IN  IF ~file.exists
      THEN Returned(File(img_tag \o <<LF>>))
      ELSE
        LET content == ReadText(file.content)
            start_idx == Find(content, SECTION_START_MARKER)
            end_idx == Find(content, SECTION_END_MARKER)
            after_start == SkipForward(content, start_idx + 1)
            before_end == SkipBackward(content, end_idx, after_start)
            img_with_newline == IF before_end > after_start THEN img_tag
                                ELSE img_tag \o <<LF>>
        IN  IF start_idx = -1 THEN Raised(file, "ValueError")
            ELSE IF end_idx = -1 THEN Raised(file, "ValueError")
            ELSE IF start_idx > end_idx THEN Raised(file, "ValueError")
            ELSE Returned(File(Slice(content, 0, after_start) \o img_with_newline
                                 \o Slice(content, before_end, Len(content))))

\* the img tag always gets a line end of its own
WebpDataUrl_write_newline(file, data) ==
  LET img_tag == <<IMG_OPEN>> \o data \o <<IMG_CLOSE>>
  IN  IF ~file.exists
      THEN Returned(File(<<SECTION_START_MARKER, LF>> \o img_tag
                           \o <<LF, SECTION_END_MARKER, LF>>))
      ELSE
        LET content == ReadText(file.content)
            start_idx == Find(content, SECTION_START_MARKER)
            end_idx == Find(content, SECTION_END_MARKER)
            after_start == SkipForward(content, start_idx + 1)
            before_end == SkipBackward(content, end_idx, after_start)
            img_with_newline == img_tag \o <<LF>>
        IN  IF start_idx = -1 THEN Raised(file, "ValueError")
            ELSE IF end_idx = -1 THEN Raised(file, "ValueError")
            ELSE IF start_idx > end_idx THEN Raised(file, "ValueError")
            ELSE Returned(File(Slice(content, 0, after_start) \o img_with_newline
                                 \o Slice(content, before_end, Len(content))))

\* WebpDataUrlOutputProvider.write: a new file gets the markers around the
\* img tag; in an existing file the text between the first start marker and
\* the first end marker, less the line ends next to the markers, is replaced
WebpDataUrl_write(file, data) ==
  LET img_tag == <<IMG_OPEN>> \o data \o <<IMG_CLOSE>>
  IN  IF ~file.exists
      THEN Returned(File(<<SECTION_START_MARKER, LF>> \o img_tag
                           \o <<LF, SECTION_END_MARKER, LF>>))
      ELSE
        LET content == ReadText(file.content)
            start_idx == Find(content, SECTION_START_MARKER)
            end_idx == Find(content, SECTION_END_MARKER)
            after_start == SkipForward(content, start_idx + 1)
            before_end == SkipBackward(content, end_idx, after_start)
            img_with_newline == IF before_end > after_start THEN img_tag
                                ELSE img_tag \o <<LF>>
        IN  IF start_idx = -1 THEN Raised(file, "ValueError")
            ELSE IF end_idx = -1 THEN Raised(file, "ValueError")
            ELSE IF start_idx > end_idx THEN Raised(file, "ValueError")
            ELSE Returned(File(Slice(content, 0, after_start) \o img_with_newline
                                 \o Slice(content, before_end, Len(content))))

\* GifOutputProvider.write(data): the data goes to self.path
Gif_write(file, data) == Returned(File(data))

\* WebPOutputProvider.write(path, data) called as write(data): the call
\* lacks an argument and raises TypeError before anything is opened
WebP_write(file, data) == Raised(file, "TypeError")

\* provider.write(encoded) of cli.py:254
write(provider, file, data) ==
  CASE provider = "gif" -> Gif_write(file, data)
    [] provider = "webp" -> WebP_write(file, data)
    [] provider = "dataurl" -> WebpDataUrl_write(file, data)

\* ------------------------------------------------------------------ paths
\* A path is a sequence of characters.  str.lower() on the letters in use:
LowerChar(c) ==
  CASE c = "G" -> "g" [] c = "I" -> "i" [] c = "F" -> "f" [] c = "W" -> "w"
    [] c = "E" -> "e" [] c = "B" -> "b" [] c = "P" -> "p" [] OTHER -> c

Lower(s) == [i \in 1..Len(s) |-> LowerChar(s[i])]

\* index of the last occurrence of c in s, 0 when there is none
LastIndex(s, c) ==
  LET S == {i \in 1..Len(s) : s[i] = c}
  IN  IF S = {} THEN 0 ELSE CHOOSE i \in S : \A j \in S : j <= i

\* Path(p).name: what follows the last "/"
PathName(p) == SubSeq(p, LastIndex(p, "/") + 1, Len(p))

\* Path(p).suffix: the name from its last dot on, when that dot is neither
\* the first nor the last character of the name
Suffix(p) ==
  LET name == PathName(p)
      i == LastIndex(name, ".")
  IN  IF 1 < i /\ i < Len(name) THEN SubSeq(name, i, Len(name)) ELSE << >>

\* the suffix is compared as written
resolve_output_provider_cased(file_path) ==
  LET ext == Suffix(file_path)
  IN  IF ext = <<".", "g", "i", "f">> THEN [provider |-> "gif", raised |-> ""]
      ELSE IF ext = <<".", "w", "e", "b", "p">> THEN [provider |-> "webp", raised |-> ""]
      ELSE [provider |-> "", raised |-> "ValueError"]

\* resolve_output_provider: the provider class of the lower-cased suffix, or
\* ValueError; the result names the provider, "" when the call raised
resolve_output_provider(file_path) ==
  LET ext == Lower(Suffix(file_path))
  IN  IF ext = <<".", "g", "i", "f">> THEN [provider |-> "gif", raised |-> ""]
      ELSE IF ext = <<".", "w", "e", "b", "p">> THEN [provider |-> "webp", raised |-> ""]
      ELSE [provider |-> "", raised |-> "ValueError"]

\* ------------------------------------------------------------ command line
\* the variables of the frame generator, which the command line steps leave
\* alone: the run of generate_frames() inside encode() is taken as a whole
animVars == <<grid, strat, cap, max_frames, game_state, opc, pc, action,
              force_kill_countdown, trail_i, want, running, gen_out, handoff,
              frames, log, fps>>

\* list(animator.generate_frames(max_frames)) for a game whose full run has
\* run frames: all of them without a cap, none for a cap that is not
\* positive, the first max_frames of them when there are that many, and the
\* RuntimeError of next(gen) on the finished generator otherwise
generate_frames(cap_arg, run) ==
  IF cap_arg = None THEN [n |-> run, raised |-> ""]
  ELSE IF cap_arg <= 0 THEN [n |-> 0, raised |-> ""]
  ELSE IF cap_arg <= run THEN [n |-> cap_arg, raised |-> ""]
  ELSE [n |-> 0, raised |-> "RuntimeError"]

\* the duration is rounded to the nearest millisecond
encode_duration_rounded(f) == (1000 + f \div 2) \div f

\* the frame duration cli.py hands to encode(): 1000 // fps
encode_duration(f) == 1000 \div f

\* provider.encode(frames, frame_duration)
encode(provider, n) ==
  CASE provider = "gif" -> Encoded("GIF89a", n)
    [] provider = "webp" -> Encoded("RIFF....WEBP", n)
    [] provider = "dataurl" -> DataUrl(n)

\* _setup_animator and STRATEGY_MAP: the strategy names that are known
KnownStrategies == {"column", "row", "random"}

\* values of --output: a.gif, a.GIF, a.webp, a.WebP, a.mp4, a, .gif, d.gif/a
OutPaths ==
  {<<"a", ".", "g", "i", "f">>, <<"a", ".", "G", "I", "F">>,
   <<"a", ".", "w", "e", "b", "p">>, <<"a", ".", "W", "e", "b", "P">>,
   <<"a", ".", "m", "p", "4">>, <<"a">>, <<".", "g", "i", "f">>,
   <<"d", ".", "g", "i", "f", "/", "a">>}

\* out = f"{username}-gh-space-shooter.gif"
DefaultOut == <<"u", "-", "g", "h", ".", "g", "i", "f">>

\* what the file named by --write-dataurl-to holds before the run: nothing,
\* a page with a section, a page without markers
TargetFiles ==
  {NoFile,
   File(<<"a", LF, SECTION_START_MARKER, LF, "b", LF, SECTION_END_MARKER, LF, "c", LF>>),
   File(<<"a", LF, "b", LF>>)}

\* frames of a full run: the shortest game, a short one, one longer than the
\* cap of the web app
RunFrames == {6, 9, 300}

CliFps == {30, 60, 1001}

CliMaxFrames == {None, 0, 7}

NoFs == [out |-> NoFile, dataurl |-> NoFile, raw_out |-> NoFile]

\* the process before main() has looked at anything
Process(entry) ==
  [entry |-> entry, stage |-> "validate",
   username |-> TRUE, out |-> << >>, write_dataurl_to |-> FALSE,
   raw_input |-> "none", gh |-> "ok", raw_output |-> FALSE,
   strategy |-> "random", fps |-> WEB_FPS, max_frames |-> None, run_frames |-> 6,
   loaded |-> FALSE, provider |-> "", strategy_used |-> "", animator_made |-> FALSE,
   frame_duration |-> -1, frames_made |-> -1, durations |-> << >>,
   encoded |-> << >>, raised |-> "", message |-> "", exit_code |-> -1,
   status |-> 0, writes |-> 0, history |-> << >>]

CliProcesses ==
  {[Process("cli") EXCEPT !.username = u, !.out = o, !.write_dataurl_to = w,
                          !.raw_input = ri, !.gh = g, !.raw_output = ro,
                          !.strategy = st, !.fps = f, !.max_frames = m,
                          !.run_frames = r] :
     u \in BOOLEAN, o \in OutPaths \cup {<< >>}, w \in BOOLEAN,
     ri \in {"none", "ok", "missing"}, g \in {"ok", "error"}, ro \in BOOLEAN,
     st \in KnownStrategies \cup {"spiral"}, f \in CliFps,
     m \in CliMaxFrames, r \in {6, 9}}

WebProcesses ==
  {[Process(e) EXCEPT !.stage = e, !.strategy = st, !.gh = g, !.run_frames = r,
                      !.raw_input = tok] :
     e \in {"generate", "generate_gif"}, st \in KnownStrategies \cup {"spiral"},
     g \in {"ok", "error"}, r \in RunFrames, tok \in {"none", "no_token"}}

CliInit ==
  /\ cli \in {c \in CliProcesses :
                /\ c.raw_input # "none" => c.gh = "ok"
                /\ c.max_frames # 7 => c.run_frames = 6}
           \cup {c \in WebProcesses : c.entry = "generate_gif" => c.raw_input = "none"}
  /\ fs \in {[NoFs EXCEPT !.dataurl = t] : t \in TargetFiles}
  /\ (cli.entry # "cli" \/ ~cli.write_dataurl_to) => fs = NoFs
  /\ grid = ZeroGrid
  /\ strat = Strategy("random")
  /\ cap = None
  /\ max_frames = None
  /\ game_state = NoGameState
  /\ opc = "start"
  /\ pc = "init_frame"
  /\ action = NoAction
  /\ force_kill_countdown = FORCE_KILL_COUNTDOWN
  /\ trail_i = 0
  /\ want = FALSE
  /\ running = FALSE
  /\ gen_out = NoFrame
  /\ handoff = FALSE
  /\ frames = [n |-> 0, first |-> NoFrame, last |-> NoFrame]
  /\ log = Log0
  /\ fps = WEB_FPS

\* except CLIError / except Exception of main(): the message goes to stderr
\* and the process exits with code 1
Fail(c, msg) == [c EXCEPT !.message = msg, !.exit_code = 1, !.stage = "exited"]

\* cli.py:95-104
CliValidate ==
  /\ cli.entry = "cli" /\ cli.stage = "validate"
  /\ cli' = IF ~cli.username THEN Fail(cli, "Username is required")
            ELSE IF cli.out # << >> /\ cli.write_dataurl_to
            THEN Fail(cli, "Cannot specify both --output and --write-dataurl-to. Choose one.")
            ELSE [cli EXCEPT !.stage = "load",
                             !.out = IF cli.out = << >> /\ ~cli.write_dataurl_to
                                     THEN DefaultOut ELSE @]
  /\ UNCHANGED <<fs, animVars>>

\* cli.py:106-110 with _load_data_from_file and _load_data_from_github
CliLoad ==
  /\ cli.entry = "cli" /\ cli.stage = "load"
  /\ cli' = IF cli.raw_input = "missing" THEN Fail(cli, "File not found")
            ELSE IF cli.raw_input = "none" /\ cli.gh = "error"
            THEN Fail(cli, "GitHub API error")
            ELSE [cli EXCEPT !.loaded = TRUE, !.stage = "save"]
  /\ UNCHANGED <<fs, animVars>>

\* cli.py:112-119: the data is displayed, and saved when --raw-output is given
CliSave ==
  /\ cli.entry = "cli" /\ cli.stage = "save"
  /\ fs' = IF cli.raw_output THEN [fs EXCEPT !.raw_out = File(<<"json">>)] ELSE fs
  /\ cli' = [cli EXCEPT !.stage = "resolve"]
  /\ UNCHANGED animVars

\* cli.py:122-124 with _resolve_provider
CliResolve ==
  /\ cli.entry = "cli" /\ cli.stage = "resolve"
  /\ LET r == resolve_output_provider(cli.out)
     IN  cli' = IF cli.write_dataurl_to
                THEN [cli EXCEPT !.provider = "dataurl", !.stage = "setup"]
                ELSE IF r.raised # ""
                THEN Fail([cli EXCEPT !.raised = r.raised], "Unsupported output format")
                ELSE [cli EXCEPT !.provider = r.provider, !.stage = "setup"]
  /\ UNCHANGED <<fs, animVars>>

\* an unknown name falls back to the random strategy
CliSetup_default ==
  /\ cli.entry = "cli" /\ cli.stage = "setup"
  /\ cli' = [cli EXCEPT !.strategy_used = IF cli.strategy \in KnownStrategies
                                          THEN cli.strategy ELSE "random",
                        !.animator_made = TRUE,
                        !.frame_duration = frame_duration(cli.fps),
                        !.stage = "encode"]
  /\ UNCHANGED <<fs, animVars>>

\* cli.py:249 with _setup_animator and Animator.__init__
CliSetup ==
  /\ cli.entry = "cli" /\ cli.stage = "setup"
  /\ cli' = IF cli.strategy \notin KnownStrategies
            THEN Fail(cli, "Unknown strategy")
            ELSE [cli EXCEPT !.strategy_used = cli.strategy,
                             !.animator_made = TRUE,
                             !.frame_duration = frame_duration(cli.fps),
                             !.stage = "encode"]
  /\ UNCHANGED <<fs, animVars>>

\* cli.py:253: the encoder takes every frame and gives each the duration it
\* was handed
CliEncode ==
  /\ cli.entry = "cli" /\ cli.stage = "encode"
  /\ LET r == generate_frames(cli.max_frames, cli.run_frames)
     IN  cli' = IF r.raised # ""
                THEN Fail([cli EXCEPT !.raised = r.raised], "Failed to generate output")
                ELSE [cli EXCEPT !.frames_made = r.n,
                                 !.durations = [i \in 1..r.n |-> encode_duration(cli.fps)],
                                 !.encoded = encode(cli.provider, r.n),
                                 !.stage = "write"]
  /\ UNCHANGED <<fs, animVars>>

\* the file the provider's path names
Target(c) == IF c.provider = "dataurl" THEN "dataurl" ELSE "out"

\* cli.py:254-263
CliWrite ==
  /\ cli.entry = "cli" /\ cli.stage = "write"
  /\ LET r == write(cli.provider, fs[Target(cli)], cli.encoded)
         c1 == [cli EXCEPT !.writes = 1, !.history = <<fs[Target(cli)], r.file>>]
     IN  /\ fs' = [fs EXCEPT ![Target(cli)] = r.file]
         /\ cli' = IF r.raised # ""
                   THEN Fail([c1 EXCEPT !.raised = r.raised], "Failed to generate output")
                   ELSE [c1 EXCEPT !.stage = "exited", !.exit_code = 0]
  /\ UNCHANGED animVars

\* an HTTPException of the web app
Http(c, code) == [c EXCEPT !.status = code, !.stage = "exited"]

\* app/src/main.py:51-82, the endpoint /api/generate up to its call of
\* generate_gif
WebGenerate ==
  /\ cli.entry = "generate" /\ cli.stage = "generate"
  /\ cli' = IF cli.raw_input = "no_token" THEN Http(cli, 500)
            ELSE IF cli.strategy \notin KnownStrategies THEN Http(cli, 400)
            ELSE [cli EXCEPT !.stage = "generate_gif"]
  /\ UNCHANGED <<fs, animVars>>

\* app/src/main.py:32-43, and what the endpoint makes of its outcome
GenerateGif ==
  /\ cli.stage = "generate_gif"
  /\ LET used == IF cli.strategy \in KnownStrategies THEN cli.strategy ELSE "random"
         r == generate_frames(WEB_MAX_FRAMES, cli.run_frames)
         c1 == [cli EXCEPT !.stage = "exited", !.loaded = cli.gh = "ok"]
     IN  cli' = IF cli.gh = "error"
                THEN [c1 EXCEPT !.raised = "GitHubAPIError",
                                !.status = IF cli.entry = "generate" THEN 400 ELSE 0]
                ELSE IF r.raised # ""
                THEN [c1 EXCEPT !.strategy_used = used, !.animator_made = TRUE,
                                !.frame_duration = frame_duration(WEB_FPS),
                                !.raised = r.raised,
                                !.status = IF cli.entry = "generate" THEN 500 ELSE 0]
                ELSE [c1 EXCEPT !.strategy_used = used, !.animator_made = TRUE,
                                !.frame_duration = frame_duration(WEB_FPS),
                                !.provider = "gif",
                                !.frames_made = r.n,
                                !.durations = [i \in 1..r.n |-> 1000 \div 25],
                                !.encoded = encode("gif", r.n),
                                !.status = IF cli.entry = "generate" THEN 200 ELSE 0]
  /\ UNCHANGED <<fs, animVars>>

CliNext ==
  \/ CliValidate
  \/ CliLoad
  \/ CliSave
  \/ CliResolve
  \/ CliSetup
  \/ CliEncode
  \/ CliWrite
  \/ WebGenerate
  \/ GenerateGif

CliSpec == CliInit /\ [][CliNext]_vars

CliTypeOK ==
  /\ cli.stage \in {"validate", "load", "save", "resolve", "setup", "encode", "write",
                    "generate", "generate_gif", "exited"}
  /\ cli.exit_code \in {-1, 0, 1}

\* ----------------------------------------------------- claims on the output
\* encode() has been called and has returned
EncodeDone == cli.frames_made >= 0

\* C22: the frame duration declared to the encoder is 1000 // fps, for
\* every frame of the output, and it is Animator.frame_duration
C22_DeclaredFrameDuration ==
  EncodeDone =>
    /\ Len(cli.durations) = cli.frames_made
    /\ \A i \in 1..Len(cli.durations) :
         /\ cli.durations[i] = 1000 \div cli.fps
         /\ cli.durations[i] = cli.frame_duration
         /\ cli.durations[i] * cli.fps <= 1000
         /\ 1000 < (cli.durations[i] + 1) * cli.fps

\* a run at 60 fps has encoded its frames, 16 ms each
C22_Witness ==
  /\ cli.entry = "cli"
  /\ cli.exit_code = 0
  /\ cli.fps = 60
  /\ cli.frames_made >= 6
  /\ cli.durations[cli.frames_made] = 16

\* the run of the process c has surfaced an error to its caller: an exit
\* code of 1, an HTTP error status or an exception
ErrorSurfaced(c) == c.exit_code = 1 \/ c.status >= 400 \/ c.raised # ""

\* with an unknown strategy name nothing is put in its place, no animator
\* is built, no frame is made, and a run that has ended has ended in error
NoSubstitute(c) ==
  /\ c.strategy_used = ""
  /\ ~c.animator_made
  /\ c.frames_made = -1
  /\ c.encoded = << >>
  /\ c.stage = "exited" => ErrorSurfaced(c)

HasExtension(p, ext) ==
  /\ Len(p) > Len(ext)
  /\ \A i \in 1..Len(ext) :
       LowerChar(p[Len(p) - Len(ext) + i]) = ext[i]
  /\ p[Len(p) - Len(ext)] # "/"

\* _resolve_provider has been called for a path given with --output
Resolved == cli.entry = "cli" /\ ~cli.write_dataurl_to
            /\ cli.stage \in {"setup", "encode", "write", "exited"} /\ cli.loaded
            /\ cli.message \notin {"File not found", "GitHub API error"}

\* C24: the provider is chosen by the extension of the path alone, case
\* ignored: .gif gives the GIF provider, .webp the WebP provider, and any
\* other path raises ValueError and gives no provider
C24_ProviderByExtension ==
  Resolved =>
    /\ HasExtension(cli.out, <<".", "g", "i", "f">>)
         => (cli.provider = "gif" /\ cli.raised # "ValueError")
    /\ HasExtension(cli.out, <<".", "w", "e", "b", "p">>)
         => (cli.provider = "webp" /\ cli.raised # "ValueError")
    /\ (~HasExtension(cli.out, <<".", "g", "i", "f">>)
          /\ ~HasExtension(cli.out, <<".", "w", "e", "b", "p">>))
         => (cli.provider = "" /\ cli.raised = "ValueError" /\ cli.exit_code = 1)

\* a.WebP has been given the WebP provider
C24_Witness ==
  /\ Resolved
  /\ cli.out = <<"a", ".", "W", "e", "b", "P">>
  /\ cli.provider = "webp"

\* C25: for every provider resolve_output_provider returns, write(data)
\* after encode() puts the data into the file of the provider's path and the
\* run ends well, with --output a.webp as with --output a.gif
C25_WriteHonoursInterface ==
  (cli.entry = "cli" /\ cli.stage = "exited" /\ EncodeDone
     /\ cli.provider \in {"gif", "webp"})
    => /\ cli.exit_code = 0
       /\ cli.raised = ""
       /\ fs.out = File(cli.encoded)

\* ===================================== the data URL provider's write() alone
\* tests/test_webp_dataurl_provider.py builds a file, or none, and calls
\* provider.write(data).  The files are all texts of up to MaxText tokens
\* over the two markers, the two line end characters and one other
\* character, and the pages of the tests.
MaxText == 5

TextTokens == {SECTION_START_MARKER, SECTION_END_MARKER, LF, CR, "a"}

Texts == UNION {[1..n -> TextTokens] : n \in 0..MaxText}

\* the pages of test_section_based_injection_replaces_content_between_markers,
\* test_empty_section and test_error_when_markers_wrong_order, and a page
\* with Windows line ends
TestPages ==
  {<<"a", LF, SECTION_START_MARKER, LF, "b", LF, SECTION_END_MARKER, LF, "c", LF>>,
   <<"a", LF, SECTION_START_MARKER, LF, SECTION_END_MARKER, LF, "c", LF>>,
   <<"a", LF, SECTION_END_MARKER, LF, "b", LF, SECTION_START_MARKER, LF>>,
   <<"a", CR, LF, SECTION_START_MARKER, CR, LF, "b", CR, LF, SECTION_END_MARKER, CR, LF>>}

\* how often the test calls write()
MaxWrites == 2

WriteInit ==
  /\ fs \in {[NoFs EXCEPT !.dataurl = f] :
               f \in {NoFile} \cup {File(t) : t \in Texts \cup TestPages}}
  /\ cli \in {[Process("write") EXCEPT !.stage = "write", !.provider = "dataurl",
                                       !.encoded = DataUrl(n),
                                       !.history = <<fs.dataurl>>] : n \in {0, 2}}
  /\ grid = ZeroGrid
  /\ strat = Strategy("random")
  /\ cap = None
  /\ max_frames = None
  /\ game_state = NoGameState
  /\ opc = "start"
  /\ pc = "init_frame"
  /\ action = NoAction
  /\ force_kill_countdown = FORCE_KILL_COUNTDOWN
  /\ trail_i = 0
  /\ want = FALSE
  /\ running = FALSE
  /\ gen_out = NoFrame
  /\ handoff = FALSE
  /\ frames = [n |-> 0, first |-> NoFrame, last |-> NoFrame]
  /\ log = Log0
  /\ fps = WEB_FPS

\* provider.write(data): history keeps the file as it was before the first
\* call and as each call left it
ProviderWrite ==
  /\ cli.entry = "write" /\ cli.writes < MaxWrites
  /\ LET r == WebpDataUrl_write(fs.dataurl, cli.encoded)
     IN  /\ fs' = [fs EXCEPT !.dataurl = r.file]
         /\ cli' = [cli EXCEPT !.raised = r.raised,
                               !.writes = @ + 1,
                               !.history = Append(@, r.file)]
  /\ UNCHANGED animVars

WriteSpec == WriteInit /\ [][ProviderWrite]_vars

\* ------------------------------------------------------------------- C26
\* the lines of a text, each without its line end (str.splitlines for a
\* text whose only line ends are LF)
RECURSIVE SplitLines(_)
SplitLines(text) ==
  IF text = << >> THEN << >>
  ELSE LET nl == Find(text, LF)
       IN  IF nl = -1 THEN <<text>>
           ELSE <<Slice(text, 0, nl)>> \o SplitLines(Slice(text, nl + 1, Len(text)))

\* the img tag whose src is the data URL
ImgTag(data) == <<IMG_OPEN>> \o data \o <<IMG_CLOSE>>

\* the first write() of the run has been made
Written == cli.entry = "write" /\ cli.writes >= 1

StartsWithDataUrl(text) == text # << >> /\ text[1] = DataUrl(1)[1]

\* the run named a file for --write-dataurl-to that did not exist, and got
\* as far as writing it with the data URL of at least one frame
WroteNewDataUrlFile ==
  /\ cli.entry = "cli" /\ cli.stage = "exited" /\ cli.write_dataurl_to
  /\ cli.writes = 1 /\ ~cli.history[1].exists
  /\ cli.frames_made > 0

\* C27: a CLI run with --write-dataurl-to naming a file that does not exist
\* yet exits with code 0 and leaves a file whose content starts with
\* "data:image/webp;base64,"
C27_NewFileStartsWithDataUrl ==
  WroteNewDataUrlFile
    => /\ cli.exit_code = 0
       /\ fs.dataurl.exists
       /\ StartsWithDataUrl(fs.dataurl.content)

\* ------------------------------------------------------------------- C28
\* the lines of a text that are not empty
RECURSIVE NonEmptyLines(_)
NonEmptyLines(lines) ==
  IF lines = << >> THEN << >>
  ELSE (IF Head(lines) = << >> THEN << >> ELSE <<Head(lines)>>)
         \o NonEmptyLines(Tail(lines))

\* the file held the start marker before the end marker when write() was
\* first called
HadSection ==
  /\ Written /\ cli.history[1].exists
  /\ Find(cli.history[1].content, SECTION_START_MARKER) # -1
  /\ Find(cli.history[1].content, SECTION_START_MARKER)
       < Find(cli.history[1].content, SECTION_END_MARKER)

\* the text before the first start marker, and the text after the first end
\* marker
BeforeStart(text) == Slice(text, 0, Find(text, SECTION_START_MARKER))

AfterEnd(text) == Slice(text, Find(text, SECTION_END_MARKER) + 1, Len(text))

Between(text) ==
  Slice(text, Find(text, SECTION_START_MARKER) + 1, Find(text, SECTION_END_MARKER))

\* C28: write() on an existing file with the start marker before the end
\* marker returns, leaves between the markers the img tag as the only line,
\* and leaves the text before the start marker and the text after the end
\* marker as they were, character for character
C28_SectionReplacedRestKept ==
  HadSection
    => /\ cli.history[2].exists
       /\ Find(cli.history[2].content, SECTION_START_MARKER) # -1
       /\ Find(cli.history[2].content, SECTION_END_MARKER) # -1
       /\ NonEmptyLines(SplitLines(Between(cli.history[2].content)))
            = <<ImgTag(cli.encoded)>>
       /\ BeforeStart(cli.history[2].content) = BeforeStart(cli.history[1].content)
       /\ AfterEnd(cli.history[2].content) = AfterEnd(cli.history[1].content)

\* ------------------------------------------------------------------- C29
\* the three faults of an existing file
StartMissing(text) == Find(text, SECTION_START_MARKER) = -1

EndMissing(text) == Find(text, SECTION_END_MARKER) = -1

WrongOrder(text) ==
  /\ ~StartMissing(text) /\ ~EndMissing(text)
  /\ Find(text, SECTION_START_MARKER) > Find(text, SECTION_END_MARKER)

\* C29: write() on an existing file raises ValueError when the start marker
\* is missing, when the end marker is missing, and when the start marker
\* comes after the end marker, and the file is then as it was
C29_BadMarkersRaiseFileKept ==
  (Written /\ cli.history[1].exists
     /\ \/ StartMissing(cli.history[1].content)
        \/ EndMissing(cli.history[1].content)
        \/ WrongOrder(cli.history[1].content))
    => /\ cli.raised = "ValueError"
       /\ fs.dataurl = cli.history[1]
       /\ \A k \in 1..Len(cli.history) : cli.history[k] = cli.history[1]

C29_Witness ==
  /\ Written /\ cli.writes = 1 /\ cli.raised = "ValueError"
  /\ cli.history[1].exists /\ WrongOrder(cli.history[1].content)
  /\ Len(cli.history[1].content) > MaxText
  /\ cli.encoded # << >>
  /\ fs.dataurl = cli.history[1]

\* ------------------------------------------------------------------- C30
\* the run was given both --output and --write-dataurl-to (main() fills in
\* the default of --output only when neither is given)
BothGiven == cli.entry = "cli" /\ cli.out # << >> /\ cli.write_dataurl_to

\* C30: with both --output and --write-dataurl-to the CLI exits with code 1
\* and the message "Cannot specify both --output and --write-dataurl-to",
\* having loaded no contribution data and written no file
C30_BothFlagsRejectedFirst ==
  (BothGiven /\ cli.stage = "exited")
    => /\ cli.exit_code = 1
       /\ cli.message = "Cannot specify both --output and --write-dataurl-to. Choose one."
       /\ ~cli.loaded
       /\ cli.writes = 0
       /\ fs.out = NoFile /\ fs.raw_out = NoFile
       /\ \E t \in TargetFiles : fs.dataurl = t

\* ------------------------------------------------------------------- C31
\* the run of the documented example: --raw-input names a readable file and
\* no username is given
RawInputNoUsername ==
  cli.entry = "cli" /\ ~cli.username /\ cli.raw_input = "ok"

\* C31: a run with --raw-input <file> and no username loads the contribution
\* data from the file and goes on, and does not fail for the missing
\* username
C31_RawInputNeedsNoUsername ==
  (RawInputNoUsername /\ cli.stage = "exited")
    => /\ cli.loaded
       /\ cli.message # "Username is required"

\* ------------------------------------------------------------------- C32
\* a step that calls ship.move_to()
MoveStep == log'.move_calls = log.move_calls + 1

\* C32: at every move_to() call can_take_action() is true: the ship is not
\* moving and shoot_cooldown is 0
C32_MoveOnlyWhenReady ==
  [][MoveStep => can_take_action(game_state)]_vars

\* C32 as amended: at every move_to() call the ship is not moving, and
\* shoot_cooldown is 0 or, one tick after a shot, one less than
\* SHIP_SHOOT_COOLDOWN_FRAMES; the wait for can_take_action() comes after
\* move_to() and before shoot()
C32_MoveWhenArrived ==
  [][MoveStep =>
       /\ ~is_moving(game_state.ship)
       /\ game_state.ship.shoot_cooldown \in {0, SHIP_SHOOT_COOLDOWN_FRAMES - 1}
       /\ pc' = "gate"]_vars

\* move_to() has just been called one tick after a shot, and has set the
\* ship moving while the cooldown runs
C32_Witness ==
  /\ pc = "gate" /\ log.move_calls >= 2
  /\ game_state.ship.shoot_cooldown = SHIP_SHOOT_COOLDOWN_FRAMES - 1
  /\ is_moving(game_state.ship)

\* ------------------------------------------------------------------- C33
Abs(n) == IF n < 0 THEN -n ELSE n

\* |x - target_x| of a ship
Distance(s) == Abs(s.x - s.target_x)

\* C33: in every tick the ship moves toward target_x by at most SHIP_SPEED
\* and does not pass it: a moving ship comes strictly nearer, by SHIP_SPEED
\* or by the whole distance left, and stays on its side of the target; a
\* ship at its target stays there; the tick leaves target_x alone.  With
\* target_x unchanged the distance, a whole number of quarters, so reaches 0
\* after finitely many ticks and stays 0.
C33_ShipApproachesTarget ==
  [][TickStep =>
       LET s == game_state.ship
           t == game_state'.ship
       IN  /\ t.target_x = s.target_x
           /\ Abs(t.x - s.x) <= SHIP_SPEED
           /\ Distance(t) <= Distance(s)
           /\ Distance(t) = Distance(s) - Min(SHIP_SPEED, Distance(s))
           /\ s.x <= s.target_x => t.x <= t.target_x
           /\ s.x >= s.target_x => t.x >= t.target_x
           /\ ~is_moving(s) => t.x = s.x]_vars

\* the ship has travelled to a target away from its start column and has
\* stopped exactly there
C33_Witness ==
  /\ log.animate_calls > 0
  /\ game_state.ship.x = game_state.ship.target_x
  /\ game_state.ship.x # SHIP_START_X * XScale
  /\ log.shoot_calls > 0

\* ------------------------------------------------------------------- C34
CooldownInRange ==
  /\ game_state.ship.shoot_cooldown >= 0
  /\ game_state.ship.shoot_cooldown <= SHIP_SHOOT_COOLDOWN_FRAMES

\* C34: in every reachable state 0 <= ship.shoot_cooldown <=
\* SHIP_SHOOT_COOLDOWN_FRAMES; each tick lowers a positive cooldown by
\* exactly 1 and leaves a cooldown of 0 at 0
C34_CooldownBounded ==
  /\ []CooldownInRange
  /\ [][TickStep =>
          game_state'.ship.shoot_cooldown =
            IF game_state.ship.shoot_cooldown > 0
            THEN game_state.ship.shoot_cooldown - 1 ELSE 0]_vars

\* a shot's cooldown has been counted down from its top value to 0, and
\* further ticks have left it at 0
C34_Witness ==
  /\ log.shoot_calls > 0
  /\ game_state.ship.shoot_cooldown = 0
  /\ force_kill_countdown < FORCE_KILL_COUNTDOWN - SHIP_SHOOT_COOLDOWN_FRAMES

\* ------------------------------------------------------------------- C35
\* a step that calls game_state.shoot()
ShootStep == log'.shoot_calls = log.shoot_calls + 1

\* C35: at each shoot() call ship.x is exactly the target column of the
\* action that fires, one bullet is added, at that column, and
\* shoot_cooldown is set to SHIP_SHOOT_COOLDOWN_FRAMES
C35_BulletAtActionColumn ==
  [][ShootStep =>
       /\ action.shoot
       /\ game_state.ship.x = action.x * XScale
       /\ Len(game_state'.bullets) = Len(game_state.bullets) + 1
       /\ SubSeq(game_state'.bullets, 1, Len(game_state.bullets)) = game_state.bullets
       /\ game_state'.bullets[Len(game_state'.bullets)].x = action.x * XScale
       /\ game_state'.ship.shoot_cooldown = SHIP_SHOOT_COOLDOWN_FRAMES
       /\ game_state'.ship.x = game_state.ship.x]_vars

\* a shot has just been fired at a column the ship had to travel to
C35_Witness ==
  /\ pc = "shoot_animate"
  /\ action.x # SHIP_START_X
  /\ game_state.ship.shoot_cooldown = SHIP_SHOOT_COOLDOWN_FRAMES
  /\ Len(game_state.bullets) >= 1
  /\ game_state.bullets[Len(game_state.bullets)].x = action.x * XScale

\* ------------------------------------------------------------------- C37
\* what a tick makes of the explosions that are live when it starts, if
\* each has its frame counter raised by exactly 1 and those that reach
\* max_frames leave
AllAdvanced(exps) ==
  SelectSeq([i \in 1..Len(exps) |->
               [exps[i] EXCEPT !.frame = @ + 1, !.age = @ + 1]],
            LAMBDA e : e.frame < e.max_frames)

Live(gs) == 1..Len(gs.explosions)

\* every live explosion has 0 <= frame < max_frames and has been in the
\* list for fewer than max_frames ticks
ExplosionsInRange ==
  \A i \in Live(game_state) :
    LET e == game_state.explosions[i]
    IN  /\ e.frame >= 0 /\ e.frame < e.max_frames
        /\ e.max_frames \in {EXPLOSION_MAX_FRAMES_SMALL, EXPLOSION_MAX_FRAMES_LARGE}
        /\ e.age < e.max_frames

C38_ShotsTenTicksApart ==
  [][(ShootStep /\ log.shoot_calls >= 1) =>
       /\ log.animate_calls - log.shot_at >= SHIP_SHOOT_COOLDOWN_FRAMES
       /\ log.render_calls - log.shot_frames >= SHIP_SHOOT_COOLDOWN_FRAMES]_vars

\* a second shot has just been fired from the column of the first, exactly
\* SHIP_SHOOT_COOLDOWN_FRAMES ticks after it
C38_Witness ==
  /\ log.shoot_calls >= 2
  /\ pc = "shoot_animate"
  /\ log.animate_calls >= 2 * SHIP_SHOOT_COOLDOWN_FRAMES
  /\ log.shot_at = log.animate_calls

\* ------------------------------------------------------------------- C39
\* write() has been called twice with the same data on the same path
WrittenTwice == cli.entry = "write" /\ cli.writes >= 2

\* C39: writing the same data twice to the same path, a new file or an
\* existing file with the start marker before the end marker, leaves the
\* file as writing it once does, and neither call raises
C39_WriteIdempotent ==
  (WrittenTwice /\ (~cli.history[1].exists \/ HadSection))
    => /\ cli.history[3] = cli.history[2]
       /\ cli.history[2].exists
       /\ cli.raised = ""

\* the second write() has found the section the first one filled, in a file
\* that held other text in the section and around it
C39_Witness ==
  /\ WrittenTwice /\ HadSection
  /\ cli.encoded # << >>
  /\ Between(cli.history[1].content) # << >>
  /\ cli.history[2] # cli.history[1]
  /\ fs.dataurl = cli.history[3]
  /\ NonEmptyLines(SplitLines(Between(fs.dataurl.content))) = <<ImgTag(cli.encoded)>>

====
